---- MODULE Spec2Model ----
(***************************************************************************)
(* MixWise cocktail data pipeline: the enricher (scripts/enrich_cocktails) *)
(* and its two validators (scripts/validate_slugs, validate_ingredients).  *)
(* Python strings are TLA+ strings; a character is a string of length 1.   *)
(***************************************************************************)
EXTENDS Integers, Sequences, FiniteSets, TLC

\* ------------------------------------------------------------------------
\* Bounds of the model
\* ------------------------------------------------------------------------
MaxNameLen == 3
MaxTokenLen == 3
MaxRows == 3
MaxFileRows == 3
MaxInstructionsLen == 4

\* ------------------------------------------------------------------------
\* Python str and re primitives
\* ------------------------------------------------------------------------
\* Python's None (a value that is no string)
None == "<None>"

Char(s, i) == SubSeq(s, i, i)
CharsOf(s) == {Char(s, i) : i \in 1..Len(s)}

AsciiLower == {
    "a", "b", "c", "d", "e", "f", "g", "h", "i", "j", "k", "l", "m", "n", "o", "p",
    "q", "r", "s", "t", "u", "v", "w", "x", "y", "z"
}
AsciiUpper == {
    "A", "B", "C", "D", "E", "F", "G", "H", "I", "J", "K", "L", "M", "N", "O", "P",
    "Q", "R", "S", "T", "U", "V", "W", "X", "Y", "Z"
}
Digits == {
    "0", "1", "2", "3", "4", "5", "6", "7", "8", "9"
}
\* the letters outside ASCII that the tables of the program use
OtherLower == {
    "é", "ñ", "è", "ç", "ú", "û"
}
OtherUpper == {
    "É", "Ñ", "È", "Ç", "Ú", "Û"
}

IsAsciiLower(c) == c \in AsciiLower
IsAsciiLetter(c) == c \in AsciiLower \/ c \in AsciiUpper
IsDigit(c) == c \in Digits
\* \s and the characters str.strip() removes
IsSpace(c) == c \in {" ", "\t", "\n"}
\* \w of a str pattern: Unicode letters and digits, and the underscore
IsWord(c) == \/ IsAsciiLetter(c)
             \/ IsDigit(c)
             \/ c = "_"
             \/ c \in OtherLower
             \/ c \in OtherUpper

\* str.lower() of one character
LowerChar(c) ==
    IF c \notin AsciiUpper /\ c \notin OtherUpper THEN c
    ELSE CASE c = "A" -> "a" [] c = "B" -> "b" [] c = "C" -> "c" [] c = "D" -> "d"
           [] c = "E" -> "e" [] c = "F" -> "f" [] c = "G" -> "g" [] c = "H" -> "h"
           [] c = "I" -> "i" [] c = "J" -> "j" [] c = "K" -> "k" [] c = "L" -> "l"
           [] c = "M" -> "m" [] c = "N" -> "n" [] c = "O" -> "o" [] c = "P" -> "p"
           [] c = "Q" -> "q" [] c = "R" -> "r" [] c = "S" -> "s" [] c = "T" -> "t"
           [] c = "U" -> "u" [] c = "V" -> "v" [] c = "W" -> "w" [] c = "X" -> "x"
           [] c = "Y" -> "y" [] c = "Z" -> "z" [] c = "É" -> "é" [] c = "Ñ" -> "ñ"
           [] c = "È" -> "è" [] c = "Ç" -> "ç" [] c = "Ú" -> "ú" [] c = "Û" -> "û"

RECURSIVE lower(_)
lower(s) == IF s = "" THEN "" ELSE LowerChar(Head(s)) \o lower(Tail(s))

\* re.sub(r'[^\w\s]', '', s)
RECURSIVE sub_not_word_space(_)
sub_not_word_space(s) ==
    IF s = "" THEN ""
    ELSE (IF IsWord(Head(s)) \/ IsSpace(Head(s)) THEN Head(s) ELSE "")
         \o sub_not_word_space(Tail(s))

\* re.sub(r'[^\w\s-]', '', s)
RECURSIVE sub_not_word_space_hyphen(_)
sub_not_word_space_hyphen(s) ==
    IF s = "" THEN ""
    ELSE (IF IsWord(Head(s)) \/ IsSpace(Head(s)) \/ Head(s) = "-" THEN Head(s) ELSE "")
         \o sub_not_word_space_hyphen(Tail(s))

\* re.sub(r'[\s_]+', '-', s): every maximal run becomes one hyphen
RECURSIVE sub_space_underscore_runs(_)
sub_space_underscore_runs(s) ==
    IF s = "" THEN ""
    ELSE IF IsSpace(Head(s)) \/ Head(s) = "_"
         THEN IF Len(s) > 1 /\ (IsSpace(Char(s, 2)) \/ Char(s, 2) = "_")
              THEN sub_space_underscore_runs(Tail(s))
              ELSE "-" \o sub_space_underscore_runs(Tail(s))
         ELSE Head(s) \o sub_space_underscore_runs(Tail(s))

\* str.lstrip / str.rstrip / str.strip over the characters of the set cs
RECURSIVE lstrip_chars(_, _)
lstrip_chars(s, cs) ==
    IF s # "" /\ Head(s) \in cs THEN lstrip_chars(Tail(s), cs) ELSE s

RECURSIVE rstrip_chars(_, _)
rstrip_chars(s, cs) ==
    IF s # "" /\ Char(s, Len(s)) \in cs
    THEN rstrip_chars(SubSeq(s, 1, Len(s) - 1), cs) ELSE s

strip_chars(s, cs) == rstrip_chars(lstrip_chars(s, cs), cs)

\* str.strip()
strip(s) == strip_chars(s, {" ", "\t", "\n"})

\* sub in s
Contains(s, sub) ==
    \E i \in 1..(Len(s) - Len(sub) + 1) : SubSeq(s, i, i + Len(sub) - 1) = sub

\* str.split(sep) for a separator of one character
RECURSIVE split(_, _)
split(s, sep) ==
    IF ~Contains(s, sep) THEN <<s>>
    ELSE LET k == CHOOSE j \in 1..Len(s) :
                      Char(s, j) = sep /\ \A m \in 1..(j - 1) : Char(s, m) # sep
         IN  <<SubSeq(s, 1, k - 1)>> \o split(SubSeq(s, k + 1, Len(s)), sep)

startswith(s, p) == Len(s) >= Len(p) /\ SubSeq(s, 1, Len(p)) = p
endswith(s, p) == Len(s) >= Len(p) /\ SubSeq(s, Len(s) - Len(p) + 1, Len(s)) = p

\* all strings over the characters of cs, of length n / of length at most n
RECURSIVE StringsOfLen(_, _)
StringsOfLen(cs, n) ==
    IF n = 0 THEN {""} ELSE {s \o c : s \in StringsOfLen(cs, n - 1), c \in cs}

StringsUpTo(cs, n) == UNION {StringsOfLen(cs, k) : k \in 0..n}

\* A regular expression is a sequence of items: a literal character, an
\* optional character (c?), \s*, .*, [a-z], ^ and $.
Lit(s) == [i \in 1..Len(s) |-> [k |-> "lit", c |-> Char(s, i)]]
Opt(ch) == <<[k |-> "opt", c |-> ch]>>
WsStar == <<[k |-> "ws*", c |-> ""]>>
AnyStar == <<[k |-> "any*", c |-> ""]>>
AZ == <<[k |-> "az", c |-> ""]>>
Bol == <<[k |-> "bol", c |-> ""]>>
Eol == <<[k |-> "eol", c |-> ""]>>

\* the pattern from item i on matches s from position j on (backtracking)
RECURSIVE MatchAt(_, _, _, _)
MatchAt(p, i, s, j) ==
    IF i > Len(p) THEN TRUE
    ELSE LET it == p[i] IN
      CASE it.k = "lit" -> j <= Len(s) /\ Char(s, j) = it.c /\ MatchAt(p, i + 1, s, j + 1)
        [] it.k = "opt" -> \/ j <= Len(s) /\ Char(s, j) = it.c /\ MatchAt(p, i + 1, s, j + 1)
                           \/ MatchAt(p, i + 1, s, j)
        [] it.k = "ws*" -> \E e \in j..(Len(s) + 1) :
                               /\ \A m \in j..(e - 1) : IsSpace(Char(s, m))
                               /\ MatchAt(p, i + 1, s, e)
        [] it.k = "any*" -> \E e \in j..(Len(s) + 1) :
                               /\ \A m \in j..(e - 1) : Char(s, m) # "\n"
                               /\ MatchAt(p, i + 1, s, e)
        [] it.k = "az" -> j <= Len(s) /\ IsAsciiLower(Char(s, j)) /\ MatchAt(p, i + 1, s, j + 1)
        [] it.k = "bol" -> j = 1 /\ MatchAt(p, i + 1, s, j)
        [] it.k = "eol" -> /\ \/ j = Len(s) + 1
                              \/ j = Len(s) /\ Char(s, j) = "\n"
                           /\ MatchAt(p, i + 1, s, j)

\* re.match(p, s): a match starting at position 0 of s
re_match(p, s) == MatchAt(p, 1, s, 1)

\* ------------------------------------------------------------------------
\* enrich_cocktails.py: the name classifier
\* ------------------------------------------------------------------------
LEGITIMATE_COCKTAILS == {
    \* IBA Official Cocktails
    "alexander", "americano", "aviation", "b-52", "bellini", "bijou", "bramble",
    "caipirinha", "casino", "clover club", "cosmopolitan", "cuba libre", "daiquiri",
    "dry martini", "espresso martini", "french 75", "french connection", "gimlet",
    "gin fizz", "godfather", "godmother", "grasshopper", "greyhound", "harvey wallbanger",
    "hemingway special", "horse's neck", "irish coffee", "john collins", "long island iced tea",
    "mai tai", "manhattan", "margarita", "martini", "mimosa", "mint julep", "mojito",
    "moscow mule", "negroni", "old fashioned", "paloma", "pina colada", "pisco sour",
    "planter's punch", "porto flip", "ramos gin fizz", "rob roy", "rusty nail",
    "sazerac", "screwdriver", "sea breeze", "sex on the beach", "sidecar", "singapore sling",
    "tequila sunrise", "tom collins", "vesper", "whiskey sour", "white russian",
    \* Classic Pre-Prohibition & Savoy Cocktails
    "blood and sand", "boulevardier", "brandy alexander", "bronx", "brooklyn",
    "casino royale", "corpse reviver", "last word", "martinez", "monkey gland",
    "pegu club", "pink lady", "ramos fizz", "vieux carré", "ward eight",
    "widow's kiss", "army & navy", "bamboo", "hanky panky", "income tax",
    \* Modern Classics (Post-1980)
    "aperol spritz", "dark 'n' stormy", "espresso martini", "french martini",
    "bramble", "tommy's margarita", "penicillin", "naked and famous", "paper plane",
    "suffering bastard", "ti' punch", "jungle bird", "chartreuse swizzle",
    \* Tiki & Tropical (Smuggler's Cove lineage)
    "zombie", "mai tai", "painkiller", "navy grog", "fog cutter", "pearl diver",
    "saturn", "three dots and a dash", "missionary's downfall", "rum runner",
    "bahama mama", "blue hawaiian", "chi chi", "hurricane", "jet pilot",
    "piña colada", "planter's punch", "scorpion", "suffering bastard",
    \* Contemporary Classics & Well-Documented Modern Drinks
    "elderflower collins", "gold rush", "oaxaca old fashioned", "division bell",
    "death flip", "greenpoint", "little italy", "red hook", "trident",
    "bitter giuseppe", "black manhattan", "bobby burns", "brandy crusta",
    "breakfast martini", "benton's old fashioned", "chrysanthemum", "improved whiskey cocktail",
    \* Additional Legitimate Historical & Regional Cocktails
    "adonis", "affinity", "algonquin", "artillery", "barracuda", "bellini",
    "blinker", "bobby burns", "boston sour", "bramble", "bronx", "brooklyn",
    "buck's fizz", "caipirissima", "champagne cocktail", "clover club", "cornell",
    "death in the afternoon", "derby", "diamond fizz", "dubonnet cocktail",
    "el presidente", "english rose cocktail", "fiance", "fitzgerald", "flamingo",
    "french negroni", "frose", "frozen daiquiri", "gibson", "gimlet", "gin and tonic",
    "gin daisy", "gin fizz", "gin rickey", "gin sour", "gluehwein", "golden dream",
    "grasshopper", "hemingway daiquiri", "hot toddy", "improved cognac cocktail",
    "irish coffee", "jack rose", "japanese cocktail", "kir", "kir royale",
    "lemondrop", "long island iced tea", "lynchburg lemonade", "manhattan", "margarita",
    "mary pickford", "mexican firing squad", "millionaire cocktail", "mint julep",
    "mojito", "moscow mule", "negroni", "negroni sbagliato", "old cuban",
    "old fashioned", "paloma", "paradise", "pegu club", "pimm's cup", "pisco sour",
    "planter's punch", "port and starboard", "ramos gin fizz", "remember the maine",
    "rob roy", "rusty nail", "sazerac", "scofflaw", "screwdriver", "seelbach",
    "sherry cobbler", "sidecar", "singapore sling", "sloe gin fizz", "smithsonian",
    "southside", "stinger", "suffering bastard", "tequila sunrise", "tom collins",
    "toronto", "twentieth century", "vesper", "vieux carré", "ward eight",
    "whiskey smash", "whiskey sour", "white lady", "white russian", "yellow bird",
    \* Additional Valid Lesser-Known Cocktails
    "adonis", "bijou", "boothby", "boxcar", "brandy crusta", "casino", "chicago fizz",
    "corn n oil", "dark caipirinha", "dirty martini", "dragonfly", "dry rob roy",
    "duchamp's punch", "english highball", "fancy free", "figgy thyme", "flying dutchman",
    "flying scotchman", "frisco sour", "frozen mint daiquiri", "frozen pineapple daiquiri",
    "gagliardo", "gin and it", "gin cooler", "gin daisy", "gin lemon", "gin rickey",
    "gin sling", "gin smash", "gin squirt", "gin swizzle", "gin toddy", "gin tonic",
    "grass skirt", "grim reaper", "pink gin", "sherry flip", "stone sour",
    "amaretto sour", "apple martini", "b-53", "between the sheets", "black russian",
    "blackthorn", "blue lagoon", "bluebird", "bora bora", "boomerang", "brigadier",
    "buccaneer", "bumble bee", "cherry bomb", "cuba libra", "dirty nipple",
    "flaming lamborghini", "freddy kruger", "french 75", "foxy lady", "funk and soul",
    "gin and tonic", "godchild", "grand blue", "godson", "kamikaze", "kir", "kiss on the lips",
    "lemon drop", "lion's tail", "long vodka", "lynchburg lemonade", "madras",
    "melon ball", "metropolitan", "midori sour", "mother's milk", "mudslide",
    "new york sour", "nuclear daiquiri", "orange push-up", "orgasm", "passion fruit martini",
    "pimm's cup", "pink panther", "purple haze", "radioactive long island iced tea",
    "red snapper", "royal gin fizz", "rum and coke", "rum punch", "rum swizzle",
    "sake bomb", "salty dog", "savoy tango", "screaming orgasm", "slippery nipple",
    "snow ball", "southern comfort manhattan", "southern peach", "stinger", "strawberry daiquiri",
    "sweet martini", "tequila slammer", "tequila sunrise", "tipperary", "tokyo iced tea",
    "turf club", "valencia", "vampire", "vodka martini", "vodka tonic", "woo woo",
    "acapulco", "affair", "allegheny", "almeria", "applecar", "avalon", "balmoral",
    "boston sour", "cafe savoy", "casa blanca", "cherry rum", "chocolate milk"
}

JUNK_PATTERNS == <<
    Bol \o AZ \o Eol,
    Bol \o Lit("a1") \o Eol, Bol \o Lit("abc") \o Eol, Bol \o Lit("ace") \o Eol,
    Bol \o Lit("at&t") \o Eol,
    Bol \o Lit("acid") \o Eol, Bol \o Lit("adam") \o Eol,
    Bol \o Lit("a") \o Opt(".") \o WsStar \o Lit("j") \o Opt(".") \o Eol,
    Bol \o Lit("abilene") \o Eol, Bol \o Lit("addison") \o Eol,
    Bol \o Lit("apello") \o Eol, Bol \o Lit("avalanche") \o Eol,
    Lit("brain") \o WsStar \o Lit("fart"), Lit("fuzzy") \o WsStar \o Lit("asshole"),
    Lit("flaming") \o WsStar \o Lit("dr") \o Opt(".") \o WsStar \o Lit("pepper"),
    Lit("fahrenheit") \o WsStar \o Lit("5000"), Lit("big") \o WsStar \o Lit("red") \o Eol,
    Lit("bible") \o WsStar \o Lit("belt"), Lit("baby") \o WsStar \o Lit("eskimo"),
    Lit("bob") \o WsStar \o Lit("marley"), Lit("bubble") \o WsStar \o Lit("gum") \o Eol,
    Lit("citrus") \o WsStar \o Lit("coke") \o Eol, Bol \o Lit("gg") \o Eol,
    Lit("damned") \o WsStar \o Lit("if") \o WsStar \o Lit("you") \o WsStar \o Lit("do"),
    Lit("egg") \o WsStar \o Lit("cream") \o Eol,
    Lit("coke") \o WsStar \o Lit("and") \o WsStar \o Lit("drops"),
    Lit("diesel") \o Eol, Lit("danbooka") \o Eol, Lit("downshift") \o Eol,
    Lit("darkwood") \o WsStar \o Lit("sling"),
    Lit("flander") \o AnyStar \o Lit("flake"), Lit("afterglow") \o Eol,
    Lit("addington") \o Eol, Bol \o Lit("affair") \o Eol
>>

normalize_name(name) ==
    IF name = None \/ name = "" THEN ""
    ELSE strip(sub_not_word_space(lower(name)))

\* the loop over the patterns still to be tried, then the allow-list test
RECURSIVE ClassifyFrom(_, _)
ClassifyFrom(normalized, patterns) ==
    IF patterns = <<>> THEN normalized \in LEGITIMATE_COCKTAILS
    ELSE IF re_match(Head(patterns), normalized) THEN FALSE
    ELSE ClassifyFrom(normalized, Tail(patterns))

\* faulty variant: the allow-list is consulted without the junk patterns
is_legitimate_cocktail_no_junk(name) == normalize_name(name) \in LEGITIMATE_COCKTAILS

\* faulty variant: the name is looked up as written, not normalized
is_legitimate_cocktail_as_written(name) == ClassifyFrom(name, JUNK_PATTERNS)

is_legitimate_cocktail(name) == ClassifyFrom(normalize_name(name), JUNK_PATTERNS)

\* faulty variant: the hyphens are trimmed before the runs are collapsed
create_slug_strip_first(name) ==
    sub_space_underscore_runs(strip_chars(sub_not_word_space_hyphen(lower(name)), {"-"}))

create_slug(name) ==
    strip_chars(sub_space_underscore_runs(sub_not_word_space_hyphen(lower(name))), {"-"})

\* ------------------------------------------------------------------------
\* enrich_cocktails.py: the derived fields
\* ------------------------------------------------------------------------
\* any(x in s for x in keywords)
AnyIn(keywords, s) == \E x \in keywords : Contains(s, x)

\* faulty variant: the last group with a keyword in s decides
RECURSIVE LastGroup(_, _, _)
LastGroup(groups, s, default) ==
    IF groups = <<>> THEN default
    ELSE IF AnyIn(groups[Len(groups)][1], s) THEN groups[Len(groups)][2]
    ELSE LastGroup(SubSeq(groups, 1, Len(groups) - 1), s, default)

\* the value of the first group <<keywords, value>> with a keyword in s
RECURSIVE FirstGroup(_, _, _)
FirstGroup(groups, s, default) ==
    IF groups = <<>> THEN default
    ELSE IF AnyIn(Head(groups)[1], s) THEN Head(groups)[2]
    ELSE FirstGroup(Tail(groups), s, default)

SpiritGroups == <<
    <<{"vodka", "russian", "moscow", "bloody mary", "espresso martini", "cosmopolitan"},
      "Vodka">>,
    <<{"gin", "martini", "negroni", "tom collins", "aviation", "gimlet"}, "Gin">>,
    <<{"rum", "mojito", "daiquiri", "mai tai", "pina colada", "cuba"}, "Rum">>,
    <<{"whiskey", "whisky", "bourbon", "rye", "scotch", "manhattan", "old fashioned",
       "mint julep"}, "Whiskey">>,
    <<{"tequila", "mezcal", "margarita", "paloma"}, "Tequila">>,
    <<{"brandy", "cognac", "sidecar"}, "Brandy">>,
    <<{"champagne", "prosecco", "bellini", "mimosa", "french 75"}, "Champagne">>,
    <<{"aperol", "campari", "americano"}, "Aperitif">>
>>

\* get_base_spirit(name) with the default ingredients_hint "", in which no
\* keyword is found
get_base_spirit(name) == FirstGroup(SpiritGroups, lower(name), "Spirit")

CategoryGroups == <<
    <<{"martini", "manhattan", "negroni", "old fashioned", "sazerac"}, "Spirit-Forward">>,
    <<{"sour", "daiquiri", "margarita", "whiskey sour"}, "Sour">>,
    <<{"fizz", "collins", "rickey", "highball", "tonic"}, "Highball">>,
    <<{"mai tai", "zombie", "tiki", "hurricane", "painkiller"}, "Tiki">>,
    <<{"spritz", "aperol", "bellini", "mimosa"}, "Sparkling">>,
    <<{"shot", "shooter", "b-52", "kamikaze"}, "Shot">>
>>

get_category(name) == FirstGroup(CategoryGroups, lower(name), "Classic")

glass_map == <<
    <<"cocktail glass", "Coupe Glass">>,
    <<"martini glass", "Martini Glass">>,
    <<"old-fashioned glass", "Old Fashioned Glass">>,
    <<"highball glass", "Highball Glass">>,
    <<"collins glass", "Collins Glass">>,
    <<"shot glass", "Shot Glass">>,
    <<"champagne flute", "Champagne Flute">>,
    <<"coupe glass", "Coupe Glass">>,
    <<"rocks glass", "Old Fashioned Glass">>,
    <<"whiskey sour glass", "Coupe Glass">>
>>

\* the value of the first entry <<key, value>> whose key is found in s
RECURSIVE FirstKeyIn(_, _, _)
FirstKeyIn(entries, s, default) ==
    IF entries = <<>> THEN default
    ELSE IF Contains(s, Head(entries)[1]) THEN Head(entries)[2]
    ELSE FirstKeyIn(Tail(entries), s, default)

\* clean_glassware(glass) for a string; None has no lower() and raises
clean_glassware(glass) == FirstKeyIn(glass_map, strip(lower(glass)), "Coupe Glass")

recipes == <<
    <<"Martini", "2 oz gin|0.5 oz dry vermouth|Lemon twist or olive">>,
    <<"Dry Martini", "2.5 oz gin|0.5 oz dry vermouth|Lemon twist">>,
    <<"Manhattan", "2 oz rye whiskey|1 oz sweet vermouth|2 dashes Angostura bitters|Maraschino cherry">>,
    <<"Old Fashioned", "2 oz bourbon|0.25 oz simple syrup|3 dashes Angostura bitters|Orange peel">>,
    <<"Negroni", "1 oz gin|1 oz Campari|1 oz sweet vermouth|Orange peel">>,
    <<"Daiquiri", "2 oz white rum|1 oz fresh lime juice|0.75 oz simple syrup">>,
    <<"Margarita", "2 oz tequila blanco|1 oz fresh lime juice|0.75 oz orange liqueur|Salt for rim">>,
    <<"Mojito", "2 oz white rum|1 oz fresh lime juice|0.75 oz simple syrup|8 mint leaves|Soda water">>,
    <<"Cosmopolitan", "1.5 oz vodka|1 oz cranberry juice|0.5 oz fresh lime juice|0.5 oz orange liqueur">>,
    <<"Whiskey Sour", "2 oz bourbon|0.75 oz fresh lemon juice|0.75 oz simple syrup|1 egg white">>,
    <<"Espresso Martini", "2 oz vodka|1 oz coffee liqueur|1 oz fresh espresso|0.5 oz simple syrup">>,
    <<"Gimlet", "2 oz gin|0.75 oz fresh lime juice|0.75 oz simple syrup">>,
    <<"Tom Collins", "2 oz gin|1 oz fresh lemon juice|0.5 oz simple syrup|Soda water">>,
    <<"Aviation", "2 oz gin|0.5 oz maraschino liqueur|0.25 oz crème de violette|0.75 oz fresh lemon juice">>,
    <<"French 75", "1 oz gin|0.5 oz fresh lemon juice|0.5 oz simple syrup|3 oz Champagne">>,
    <<"Mai Tai", "2 oz aged rum|0.75 oz fresh lime juice|0.5 oz orange curaçao|0.5 oz orgeat|0.25 oz simple syrup">>,
    <<"Moscow Mule", "2 oz vodka|0.5 oz fresh lime juice|4 oz ginger beer">>,
    <<"Aperol Spritz", "3 oz Prosecco|2 oz Aperol|1 oz soda water|Orange slice">>,
    <<"Americano", "1.5 oz Campari|1.5 oz sweet vermouth|Soda water|Orange slice">>,
    <<"Caipirinha", "2 oz cachaça|0.5 lime cut into wedges|2 tsp sugar">>,
    <<"Sazerac", "2 oz rye whiskey|0.25 oz simple syrup|3 dashes Peychaud's bitters|Absinthe rinse|Lemon peel">>,
    <<"Boulevardier", "1.5 oz bourbon|1 oz Campari|1 oz sweet vermouth|Orange peel">>,
    <<"Last Word", "0.75 oz gin|0.75 oz green Chartreuse|0.75 oz maraschino liqueur|0.75 oz fresh lime juice">>,
    <<"Paper Plane", "0.75 oz bourbon|0.75 oz Aperol|0.75 oz Amaro Nonino|0.75 oz fresh lemon juice">>,
    <<"Corpse Reviver", "0.75 oz gin|0.75 oz Lillet Blanc|0.75 oz Cointreau|0.75 oz fresh lemon juice|Absinthe rinse">>,
    <<"Clover Club", "2 oz gin|0.75 oz fresh lemon juice|0.5 oz raspberry syrup|1 egg white">>,
    <<"Bramble", "2 oz gin|1 oz fresh lemon juice|0.5 oz simple syrup|0.5 oz crème de mûre">>,
    <<"Bellini", "2 oz white peach purée|4 oz Prosecco">>,
    <<"Mimosa", "3 oz Champagne|3 oz fresh orange juice">>,
    <<"Pina Colada", "2 oz white rum|1.5 oz cream of coconut|1.5 oz pineapple juice|0.5 oz fresh lime juice">>,
    <<"Mint Julep", "2.5 oz bourbon|0.5 oz simple syrup|8 mint leaves">>,
    <<"Singapore Sling", "1.5 oz gin|0.5 oz cherry liqueur|0.25 oz Cointreau|0.25 oz Bénédictine|4 oz pineapple juice|0.5 oz fresh lime juice|Dash Angostura bitters">>,
    <<"Sidecar", "2 oz cognac|1 oz orange liqueur|1 oz fresh lemon juice">>,
    <<"Vesper", "3 oz gin|1 oz vodka|0.5 oz Lillet Blanc|Lemon twist">>,
    <<"Gin Fizz", "2 oz gin|1 oz fresh lemon juice|0.75 oz simple syrup|Soda water">>,
    <<"Gin and Tonic", "2 oz gin|4 oz tonic water|Lime wedge">>,
    <<"Cuba Libre", "2 oz white rum|4 oz Coca-Cola|0.5 oz fresh lime juice|Lime wedge">>,
    <<"Tequila Sunrise", "2 oz tequila|4 oz orange juice|0.5 oz grenadine">>,
    <<"Paloma", "2 oz tequila|0.5 oz fresh lime juice|4 oz grapefruit soda|Salt for rim">>,
    <<"Irish Coffee", "1.5 oz Irish whiskey|4 oz hot coffee|1 oz heavy cream|1 tsp brown sugar">>,
    <<"White Russian", "2 oz vodka|1 oz coffee liqueur|1 oz heavy cream">>,
    <<"Black Russian", "2 oz vodka|1 oz coffee liqueur">>,
    <<"Screwdriver", "2 oz vodka|4 oz fresh orange juice">>,
    <<"Bloody Mary", "2 oz vodka|4 oz tomato juice|0.5 oz fresh lemon juice|Worcestershire sauce|Hot sauce|Salt|Pepper|Celery salt">>,
    <<"Rob Roy", "2 oz scotch|1 oz sweet vermouth|2 dashes Angostura bitters">>,
    <<"Rusty Nail", "1.5 oz scotch|0.75 oz Drambuie">>,
    <<"Godfather", "1.5 oz scotch|0.75 oz amaretto">>,
    <<"Godmother", "1.5 oz vodka|0.75 oz amaretto">>,
    <<"B-52", "0.5 oz Kahlúa|0.5 oz Baileys Irish Cream|0.5 oz Grand Marnier">>,
    <<"Grasshopper", "1 oz crème de menthe|1 oz crème de cacao|1 oz heavy cream">>,
    <<"French Martini", "2 oz vodka|0.5 oz Chambord|1.5 oz pineapple juice">>,
    <<"Lemon Drop", "2 oz vodka|0.75 oz fresh lemon juice|0.5 oz simple syrup|0.25 oz orange liqueur|Sugar rim">>
>>

\* the value of the first entry <<key, value>> whose normalized key is the
\* normalized name
RECURSIVE LookupNormalized(_, _, _)
LookupNormalized(entries, name_normalized, default) ==
    IF entries = <<>> THEN default
    ELSE IF normalize_name(Head(entries)[1]) = name_normalized THEN Head(entries)[2]
    ELSE LookupNormalized(Tail(entries), name_normalized, default)

\* faulty variant: the fallback lists the spirit alone
generate_ingredients_spirit_only(name, base_spirit) ==
    LookupNormalized(recipes, normalize_name(name), "2 oz " \o lower(base_spirit))

generate_ingredients(name, base_spirit) ==
    LookupNormalized(recipes, normalize_name(name),
        "2 oz " \o lower(base_spirit) \o "|1 oz citrus juice|0.75 oz simple syrup")

\* the aspects enrich_cocktail asks generate_flavor_profile for, in its order
FlavorAspects == <<"strength", "sweetness", "tartness", "bitterness", "aroma", "texture">>

\* generate_flavor_profile: the groups <<keywords, rating>> of an aspect, in
\* the order of its if statements (texture: after the flip/sour-and-egg test)
FlavorGroups(aspect) ==
    CASE aspect = "strength" ->
            << <<{"martini", "manhattan", "negroni", "sazerac", "old fashioned"}, 8>>,
               <<{"shot", "shooter"}, 9>>,
               <<{"spritz", "mimosa", "bellini"}, 3>> >>
      [] aspect = "sweetness" ->
            << <<{"pina colada", "mai tai", "sex on the beach"}, 8>>,
               <<{"martini", "negroni", "sazerac"}, 2>> >>
      [] aspect = "tartness" ->
            << <<{"sour", "daiquiri", "margarita", "gimlet"}, 7>>,
               <<{"old fashioned", "manhattan", "negroni"}, 2>> >>
      [] aspect = "bitterness" ->
            << <<{"negroni", "americano", "aperol"}, 7>>,
               <<{"daiquiri", "mojito", "pina colada"}, 1>> >>
      [] aspect = "aroma" ->
            << <<{"martini", "gin", "aviation", "negroni"}, 7>> >>
      [] aspect = "texture" ->
            << <<{"frozen", "blended", "pina colada"}, 7>>,
               <<{"martini", "manhattan"}, 4>> >>
      [] OTHER -> <<>>

\* generate_flavor_profile: the rating returned when no if statement of the
\* aspect applies; 5 for an aspect that is none of the six
FlavorDefault(aspect) ==
    CASE aspect = "strength" -> 6
      [] aspect = "sweetness" -> 5
      [] aspect = "tartness" -> 4
      [] aspect = "bitterness" -> 3
      [] aspect = "aroma" -> 5
      [] aspect = "texture" -> 5
      [] OTHER -> 5

\* faulty variant: nothing is returned (0 here) when no if statement applies
generate_flavor_profile_no_default(name, aspect) ==
    LET name_lower == lower(name)
    IN  IF /\ aspect = "texture"
           /\ AnyIn({"flip", "sour"}, name_lower)
           /\ Contains(name_lower, "egg")
        THEN 8
        ELSE FirstGroup(FlavorGroups(aspect), name_lower, 0)

generate_flavor_profile(name, aspect) ==
    LET name_lower == lower(name)
    IN  IF /\ aspect = "texture"
           /\ AnyIn({"flip", "sour"}, name_lower)
           /\ Contains(name_lower, "egg")
        THEN 8
        ELSE FirstGroup(FlavorGroups(aspect), name_lower, FlavorDefault(aspect))

\* the text clean_instructions returns for instructions that are absent
GenericInstructions ==
    "1. Combine ingredients in shaker with ice. 2. Shake well for 15 seconds. "
        \o "3. Strain into chilled glass. 4. Garnish and serve."

\* re.sub(r'\s+', ' ', s): every maximal run of whitespace becomes one space
RECURSIVE sub_space_runs(_)
sub_space_runs(s) ==
    IF s = "" THEN ""
    ELSE IF IsSpace(Head(s))
         THEN IF Len(s) > 1 /\ IsSpace(Char(s, 2))
              THEN sub_space_runs(Tail(s))
              ELSE " " \o sub_space_runs(Tail(s))
         ELSE Head(s) \o sub_space_runs(Tail(s))

\* the number of digits s starts with
RECURSIVE LeadingDigits(_)
LeadingDigits(s) ==
    IF s # "" /\ IsDigit(Head(s)) THEN 1 + LeadingDigits(Tail(s)) ELSE 0

\* re.match(r'^\d+\.', s)
match_step_number(s) ==
    LET k == LeadingDigits(s)
    IN  k >= 1 /\ Len(s) > k /\ Char(s, k + 1) = "."

\* [s.strip() for s in parts if s.strip()]
RECURSIVE StrippedNonEmpty(_)
StrippedNonEmpty(parts) ==
    IF parts = <<>> THEN <<>>
    ELSE (IF strip(Head(parts)) # "" THEN <<strip(Head(parts))>> ELSE <<>>)
         \o StrippedNonEmpty(Tail(parts))

\* ' '.join([f'{i+1}. {s}.' for i, s in enumerate(sentences)]), from the
\* sentence numbered n on
RECURSIVE JoinNumbered(_, _)
JoinNumbered(sentences, n) ==
    IF sentences = <<>> THEN ""
    ELSE ToString(n) \o ". " \o Head(sentences) \o "."
         \o (IF Len(sentences) > 1 THEN " " ELSE "")
         \o JoinNumbered(Tail(sentences), n + 1)

\* faulty variant: the text is numbered again whether or not it is numbered
clean_instructions_always_numbers(instructions) ==
    IF instructions = None \/ instructions = "" THEN GenericInstructions
    ELSE JoinNumbered(StrippedNonEmpty(split(sub_space_runs(strip(instructions)), ".")), 1)

clean_instructions(instructions) ==
    IF instructions = None \/ instructions = "" THEN GenericInstructions
    ELSE LET cleaned == sub_space_runs(strip(instructions))
         IN  IF match_step_number(cleaned) THEN cleaned
             ELSE JoinNumbered(StrippedNonEmpty(split(cleaned, ".")), 1)

\* generate_fun_fact: the table facts, in its order
facts == <<
    <<"Martini",
      "The Martini has been a symbol of sophistication since the late 1800s. Its exact origins remain disputed, with both Martinez, California and New York City claiming invention.">>,
    <<"Manhattan",
      "Created in the 1870s at the Manhattan Club in New York City. It quickly became the most famous whiskey cocktail in America.">>,
    <<"Old Fashioned",
      "The Old Fashioned is widely considered the original cocktail template. The term \"cocktail\" originally meant spirit, sugar, water, and bitters.">>,
    <<"Daiquiri",
      "Named after a beach near Santiago de Cuba, the Daiquiri was popularized by Ernest Hemingway, who favored a version with grapefruit and no sugar.">>,
    <<"Negroni",
      "Created in Florence in 1919 when Count Camillo Negroni asked for an Americano with gin instead of soda water.">>,
    <<"Margarita",
      "The Margarita's true origin is disputed, with dozens of bartenders claiming credit. It likely evolved from the Daisy family of cocktails.">>,
    <<"Mojito",
      "The Mojito has roots in 16th-century Cuba. Ernest Hemingway famously drank them at La Bodeguita del Medio in Havana.">>,
    <<"Aviation",
      "Created by Hugo Ensslin, head bartender at the Hotel Wallick in New York, around 1916. The crème de violette gives it a distinctive sky-blue color.">>,
    <<"Sazerac",
      "Recognized as the official cocktail of New Orleans. Originally made with cognac, it switched to rye whiskey during the phylloxera epidemic.">>,
    <<"French 75",
      "Named after the powerful French 75mm field gun used in WWI. The cocktail packs a similar punch.">>,
    <<"Espresso Martini",
      "Invented in 1983 by London bartender Dick Bradsell when a customer requested a drink to \"wake me up and f*** me up.\"">>,
    <<"Last Word",
      "Created at the Detroit Athletic Club during Prohibition. It disappeared for decades before being rediscovered and becoming a modern classic.">>,
    <<"Corpse Reviver",
      "Part of a family of \"morning after\" cocktails designed as hangover cures. This version appears in the Savoy Cocktail Book with the warning: \"Four of these taken in swift succession will unrevive the corpse again.\"">>,
    <<"Penicillin",
      "Created in 2005 by Sam Ross at Milk & Honey in New York. It has become the most influential cocktail of the 21st century.">>,
    <<"Paper Plane",
      "Created in 2007 by Sam Ross, named after the M.I.A. song \"Paper Planes.\" It follows the Last Word template with equal parts of four ingredients.">>
>>

\* generate_fun_fact_source: the table sources, in its order
sources == <<
    <<"Martini",
      "Wondrich, Imbibe!">>,
    <<"Manhattan",
      "Historical cocktail records">>,
    <<"Old Fashioned",
      "Wondrich, Imbibe!">>,
    <<"Daiquiri",
      "Hemingway archives">>,
    <<"Negroni",
      "Camillo Negroni family records">>,
    <<"Sazerac",
      "New Orleans cocktail history">>,
    <<"French 75",
      "Savoy Cocktail Book, 1930">>,
    <<"Espresso Martini",
      "Dick Bradsell interview archives">>,
    <<"Last Word",
      "Ted Saucier, Bottoms Up, 1951">>,
    <<"Corpse Reviver",
      "Savoy Cocktail Book, 1930">>,
    <<"Penicillin",
      "Sam Ross, Milk & Honey NYC">>,
    <<"Paper Plane",
      "Sam Ross, 2007">>,
    <<"Aviation",
      "Hugo Ensslin, Recipes for Mixed Drinks, 1916">>,
    <<"Mojito",
      "Hemingway, Cuban cocktail culture">>
>>

generate_fun_fact(name) ==
    LookupNormalized(facts, normalize_name(name),
        "The " \o name \o " is a classic cocktail with a rich history in cocktail culture.")

generate_fun_fact_source(name) ==
    LookupNormalized(sources, normalize_name(name), "Cocktail historical references")

\* row[key] and row.get(key, default)
HasKey(row, key) == key \in DOMAIN row
Get(row, key, default) == IF HasKey(row, key) THEN row[key] ELSE default

\* What enrich_cocktail(row) returns, or [exc |-> ...] when it raises: KeyError
\* for a row without 'name' or 'id', AttributeError for a glass that is None.
\* Of the 28 fields, those the properties below read are modelled; the six
\* flavor_* fields are the sequence flavor, in the order of FlavorAspects.
enrich_cocktail(row) ==
    IF ~HasKey(row, "name") \/ ~HasKey(row, "id") THEN [exc |-> "KeyError"]
    ELSE IF row.name = None \/ Get(row, "glass", "Cocktail glass") = None
         THEN [exc |-> "AttributeError"]
    ELSE LET name == strip(row.name)
             base_spirit == get_base_spirit(name)
         IN  [id |-> row.id,
              slug |-> create_slug(name),
              name |-> name,
              base_spirit |-> base_spirit,
              category_primary |-> get_category(name),
              glassware |-> clean_glassware(Get(row, "glass", "Cocktail glass")),
              flavor |-> [k \in 1..Len(FlavorAspects) |->
                             generate_flavor_profile(name, FlavorAspects[k])],
              ingredients |-> generate_ingredients(name, base_spirit),
              instructions |-> clean_instructions(Get(row, "instructions", ""))]

Raised(r) == "exc" \in DOMAIN r

\* faulty variant: a colliding slug is suffixed with the id the registry holds
DedupSlugPriorId(enriched, seen) ==
    IF enriched.slug \in DOMAIN seen
    THEN <<[enriched EXCEPT !.slug = enriched.slug \o "-" \o seen[enriched.slug]], seen>>
    ELSE <<enriched, seen @@ (enriched.slug :> enriched.id)>>

\* faulty variant: the colliding record's name is suffixed as well
DedupSlugRenamesName(enriched, seen) ==
    IF enriched.slug \in DOMAIN seen
    THEN <<[enriched EXCEPT !.slug = enriched.slug \o "-" \o enriched.id,
                            !.name = enriched.name \o " " \o enriched.id], seen>>
    ELSE <<enriched, seen @@ (enriched.slug :> enriched.id)>>

\* main, the duplicate-slug step: <<the record as appended, seen_slugs after>>
DedupSlug(enriched, seen) ==
    IF enriched.slug \in DOMAIN seen
    THEN <<[enriched EXCEPT !.slug = enriched.slug \o "-" \o enriched.id], seen>>
    ELSE <<enriched, seen @@ (enriched.slug :> enriched.id)>>

\* ------------------------------------------------------------------------
\* validate_ingredients.py: the ingredient token rules
\* ------------------------------------------------------------------------
HasAsciiLetter(s) == \E k \in 1..Len(s) : IsAsciiLetter(Char(s, k))

\* str.count(sub) for a substring of one character
count_char(s, c) == Cardinality({k \in 1..Len(s) : Char(s, k) = c})

\* faulty variant: the letter test is made before the length test
validate_ingredient_format_letters_first(ingredient) ==
    LET ing == strip(ingredient)
    IN  IF ing = "" THEN <<FALSE, "Empty ingredient">>
        ELSE IF Contains(ing, "???") THEN <<FALSE, "Contains '???'">>
        ELSE IF ing = "null" \/ ing = "None" THEN <<FALSE, "Invalid null value">>
        ELSE IF ~HasAsciiLetter(ing) THEN <<FALSE, "No ingredient name found">>
        ELSE IF Len(ing) < 2 THEN <<FALSE, "Too short">>
        ELSE IF count_char(ing, "|") > 0
             THEN <<FALSE, "Contains pipe character (should be split)">>
        ELSE <<TRUE, None>>

\* returns <<is_valid, error_msg>>
validate_ingredient_format(ingredient) ==
    LET ing == strip(ingredient)
    IN  IF ing = "" THEN <<FALSE, "Empty ingredient">>
        ELSE IF Contains(ing, "???") THEN <<FALSE, "Contains '???'">>
        ELSE IF ing = "null" \/ ing = "None" THEN <<FALSE, "Invalid null value">>
        ELSE IF Len(ing) < 2 THEN <<FALSE, "Too short">>
        ELSE IF count_char(ing, "|") > 0
             THEN <<FALSE, "Contains pipe character (should be split)">>
        ELSE IF ~HasAsciiLetter(ing) THEN <<FALSE, "No ingredient name found">>
        ELSE <<TRUE, None>>

\* ------------------------------------------------------------------------
\* State
\* ------------------------------------------------------------------------
VARIABLES
    pc,                 \* position of the running script or call
    arg,                \* the argument of a function called on its own
    rets,               \* the values the calls made so far returned, in order
    rows,               \* enricher: rows of the source CSV (list(reader))
    i,                  \* enricher: index of the row the running loop is at
    legitimate,         \* enricher: rows kept by the filter
    junk,               \* enricher: names removed by the filter
    enriched_cocktails, \* enricher: rows to be written
    seen_slugs,         \* enricher: slug -> id of the first row that had it
    log,                \* enricher: names logged by the except clause
    output_file,        \* enricher: the rows written to the output CSV
    summary,            \* enricher: the counts of the summary printed, <<>> before
    exists,             \* validators: csv_file.exists()
    csv_rows,           \* validators: the data rows of the CSV read
    line,               \* validators: index of the row the reader is at
    slugs,              \* validate_slugs: the slugs collected
    errors,             \* validators: the errors recorded
    warnings,           \* validators: the warnings recorded
    duplicates,         \* validate_slugs: slug -> count, for counts above 1
    total_rows,         \* validate_ingredients: rows read
    total_ingredients,  \* validate_ingredients: tokens validated
    result              \* validators: "pass" (True, exit 0), "fail" (False, exit 1),
                        \* "error" (an uncaught exception), "none" while running

callVars == <<arg, rets>>
enrichVars == <<rows, i, legitimate, junk, enriched_cocktails, seen_slugs, log, output_file,
                summary>>
validatorVars == <<exists, csv_rows, line, slugs, errors, warnings, duplicates, total_rows,
                   total_ingredients, result>>
vars == <<pc, arg, rets, rows, i, legitimate, junk, enriched_cocktails, seen_slugs, log,
          output_file, summary, exists, csv_rows, line, slugs, errors, warnings, duplicates,
          total_rows, total_ingredients, result>>

EnrichIdle ==
    /\ rows = <<>> /\ i = 0 /\ legitimate = <<>> /\ junk = <<>>
    /\ enriched_cocktails = <<>> /\ seen_slugs = <<>> /\ log = <<>> /\ output_file = <<>>
    /\ summary = <<>>

ValidatorIdle ==
    /\ exists = TRUE /\ csv_rows = <<>> /\ line = 0 /\ slugs = <<>> /\ errors = <<>>
    /\ warnings = <<>> /\ duplicates = <<>> /\ total_rows = 0 /\ total_ingredients = 0
    /\ result = "none"

CallIdle == arg = "" /\ rets = <<>>

\* ------------------------------------------------------------------------
\* The name functions called on their own
\* ------------------------------------------------------------------------
NameAlphabet == {"a", "K", " ", "_", "-", "'", "é"}

TestNames == {
    "Martini", "MARTINI", "  Martini ", "Martinis", "Dry Martini", "Brain Fart",
    "Old Fashioned", "Old-Fashioned", "old_fashioned", "B-52", "b52", "Vieux Carré",
    "Piña Colada", "Affair!", "Kir", "the big red", "big red", "a _-_ b!", " - a - ",
    "Horse's Neck", "Kir\tRoyale", "French 75"
}

NameInputs ==
    LEGITIMATE_COCKTAILS \cup TestNames \cup StringsUpTo(NameAlphabet, MaxNameLen)

InitNames ==
    /\ pc = "start"
    /\ arg \in NameInputs \cup {None}
    /\ rets = <<>>
    /\ EnrichIdle
    /\ ValidatorIdle

CallIsLegitimate ==
    /\ pc = "start"
    /\ rets' = <<is_legitimate_cocktail(arg)>>
    /\ pc' = "classified"
    /\ UNCHANGED <<arg, enrichVars, validatorVars>>

CallCreateSlug ==
    /\ pc = "start"
    /\ arg # None
    /\ rets' = <<create_slug(arg)>>
    /\ pc' = "slugged"
    /\ UNCHANGED <<arg, enrichVars, validatorVars>>

\* the slug just made is slugged again
CallCreateSlugAgain ==
    /\ pc = "slugged"
    /\ rets' = Append(rets, create_slug(rets[1]))
    /\ pc' = "reslugged"
    /\ UNCHANGED <<arg, enrichVars, validatorVars>>

NextNames == CallIsLegitimate \/ CallCreateSlug \/ CallCreateSlugAgain

SpecNames == InitNames /\ [][NextNames]_vars

\* ------------------------------------------------------------------------
\* Claims about the name functions
\* ------------------------------------------------------------------------
\* The characters cs[k] with k in keep, in order, as one string
RECURSIVE Pick(_, _, _)
Pick(cs, keep, k) ==
    IF k > Len(cs) THEN ""
    ELSE (IF k \in keep THEN cs[k] ELSE "") \o Pick(cs, keep, k + 1)

\* The normalized name as the specification words it: lowercased, every character
\* that is neither a word character nor whitespace removed, then trimmed.
SpecNormalized(name) ==
    IF name = None THEN ""
    ELSE LET low == [k \in 1..Len(name) |-> LowerChar(Char(name, k))]
             kept == {k \in 1..Len(name) : IsWord(low[k]) \/ IsSpace(low[k])}
             solid == {k \in kept : ~IsSpace(low[k])}
             inner == {k \in kept : \E a, b \in solid : a <= k /\ k <= b}
         IN  Pick(low, inner, 1)

\* no junk pattern matches s at position 0
MatchesNoJunk(s) ==
    LET patterns == JUNK_PATTERNS
    IN  \A k \in DOMAIN patterns : ~re_match(patterns[k], s)

SpecAccepts(name) ==
    LET n == SpecNormalized(name)
    IN  /\ MatchesNoJunk(n)
        /\ n \in LEGITIMATE_COCKTAILS

\* C1: is_legitimate_cocktail(name) is true exactly when the normalized name
\* matches no junk pattern at position 0 and is an exact element of the
\* allow-list; the empty string and None are rejected.
C1_Classifier ==
    pc = "classified" =>
        /\ rets[1] = SpecAccepts(arg)
        /\ arg \in {"", None} => rets[1] = FALSE

\* C1 witness: a name that is no allow-list entry as written is accepted
\* through normalization.
C1_Witness ==
    /\ pc = "classified"
    /\ arg \notin LEGITIMATE_COCKTAILS
    /\ rets[1] = TRUE

\* C2: every allow-list entry equals its own normalization, so every entry
\* that matches no junk pattern is accepted by is_legitimate_cocktail.
C2_AllowListEntriesAccepted ==
    (/\ pc = "classified"
     /\ arg \in LEGITIMATE_COCKTAILS
     /\ MatchesNoJunk(arg))
    => (normalize_name(arg) = arg /\ rets[1] = TRUE)

\* C5: create_slug(create_slug(x)) = create_slug(x) for every string x.
C5_SlugIdempotent ==
    pc = "reslugged" => rets[2] = rets[1]

\* C5 witness: a name mixing whitespace, underscore, hyphen and punctuation
\* has been slugged twice.
C5_Witness ==
    /\ pc = "reslugged"
    /\ Contains(arg, " ") /\ Contains(arg, "_") /\ Contains(arg, "-") /\ Contains(arg, "!")
    /\ rets[1] # ""

\* ------------------------------------------------------------------------
\* validate_ingredient_format called on its own
\* ------------------------------------------------------------------------
TokenAlphabet == {"a", "1", "?", "|", " ", "é"}

TestTokens == {
    "2 oz gin", "Lemon twist", "gin???", "null", "None", "123", " null ", "NULL",
    "???|", "a|b", "1|2", "0.5 oz crème de mûre", "\t"
}

TokenInputs == TestTokens \cup StringsUpTo(TokenAlphabet, MaxTokenLen)

InitTokens ==
    /\ pc = "start"
    /\ arg \in TokenInputs
    /\ rets = <<>>
    /\ EnrichIdle
    /\ ValidatorIdle

CallValidateIngredientFormat ==
    /\ pc = "start"
    /\ rets' = <<validate_ingredient_format(arg)>>
    /\ pc' = "validated"
    /\ UNCHANGED <<arg, enrichVars, validatorVars>>

NextTokens == CallValidateIngredientFormat

SpecTokens == InitTokens /\ [][NextTokens]_vars

\* The rules of the ingredient format in the order the specification lists
\* them: <<the trimmed token t breaks the rule, the reason given>>
SpecTokenRules(t) == <<
    <<t = "", "Empty ingredient">>,
    <<\E k \in 1..(Len(t) - 2) : SubSeq(t, k, k + 2) = "???", "Contains '???'">>,
    <<t \in {"null", "None"}, "Invalid null value">>,
    <<Len(t) < 2, "Too short">>,
    <<"|" \in CharsOf(t), "Contains pipe character (should be split)">>,
    <<CharsOf(t) \cap (AsciiLower \cup AsciiUpper) = {},
      "No ingredient name found">>
>>

\* C7: validate_ingredient_format tests the trimmed token against the rules
\* empty, '???', null/None, too short, pipe, no letter, in this order; the
\* first rule broken gives the reason; a token breaking none is valid with no
\* reason.
C7_TokenRulesInOrder ==
    pc = "validated" =>
        LET rules == SpecTokenRules(strip(arg))
            broken == {k \in DOMAIN rules : rules[k][1]}
        IN  /\ broken = {} => rets[1] = <<TRUE, None>>
            /\ broken # {} =>
                 \E k \in broken : /\ \A m \in broken : k <= m
                                   /\ rets[1] = <<FALSE, rules[k][2]>>
            /\ arg \in {"2 oz gin", "Lemon twist"} => rets[1][1] = TRUE
            /\ arg \in {"", "a", "gin???", "null", "123"} => rets[1][1] = FALSE
            /\ arg = "" => rets[1][2] = "Empty ingredient"
            /\ arg = "a" => rets[1][2] = "Too short"

\* C7 witness: a token that breaks several rules at once (too short and no
\* letter) has been given the reason of the earlier one.
C7_Witness ==
    /\ pc = "validated"
    /\ Len(strip(arg)) = 1
    /\ ~HasAsciiLetter(arg)
    /\ rets[1] = <<FALSE, "Too short">>

\* ------------------------------------------------------------------------
\* validate_slugs.py
\* ------------------------------------------------------------------------
\* re.match(r'^[a-z0-9-]+$', slug); $ also matches before a final newline
is_url_safe(slug) ==
    LET body == IF endswith(slug, "\n") THEN SubSeq(slug, 1, Len(slug) - 1) ELSE slug
    IN  /\ body # ""
        /\ \A k \in 1..Len(body) :
              IsAsciiLower(Char(body, k)) \/ IsDigit(Char(body, k)) \/ Char(body, k) = "-"

\* collections.Counter(seq): value -> number of occurrences
RECURSIVE Counter(_)
Counter(seq) ==
    IF seq = <<>> THEN <<>>
    ELSE LET c == Counter(SubSeq(seq, 1, Len(seq) - 1))
             x == seq[Len(seq)]
         IN  IF x \in DOMAIN c THEN [c EXCEPT ![x] = @ + 1] ELSE c @@ (x :> 1)

\* faulty variant: the tests are chained with elif, so only the first one broken is recorded
SlugErrorsFirstOnly(slug, n) ==
    IF slug # lower(slug) THEN <<[line |-> n, kind |-> "uppercase", slug |-> slug]>>
    ELSE IF ~is_url_safe(slug) THEN <<[line |-> n, kind |-> "not url-safe", slug |-> slug]>>
    ELSE IF startswith(slug, "-") \/ endswith(slug, "-")
         THEN <<[line |-> n, kind |-> "leading or trailing hyphen", slug |-> slug]>>
    ELSE <<>>

\* the errors the loop body appends for a non-empty slug read at line n
SlugErrors(slug, n) ==
    (IF slug # lower(slug) THEN <<[line |-> n, kind |-> "uppercase", slug |-> slug]>>
     ELSE <<>>)
    \o (IF ~is_url_safe(slug) THEN <<[line |-> n, kind |-> "not url-safe", slug |-> slug]>>
        ELSE <<>>)
    \o (IF startswith(slug, "-") \/ endswith(slug, "-")
        THEN <<[line |-> n, kind |-> "leading or trailing hyphen", slug |-> slug]>>
        ELSE <<>>)

\* the warnings the loop body appends for a non-empty slug read at line n
SlugWarnings(slug, n) ==
    IF Contains(slug, "--")
    THEN <<[line |-> n, kind |-> "consecutive hyphens", slug |-> slug]>>
    ELSE <<>>

\* main(): the file is looked for
SlugsMain ==
    /\ pc = "main"
    /\ IF exists THEN pc' = "scan" /\ UNCHANGED result
       ELSE pc' = "done" /\ result' = "fail"
    /\ UNCHANGED <<callVars, enrichVars, exists, csv_rows, line, slugs, errors, warnings,
                   duplicates, total_rows, total_ingredients>>

\* one pass of the loop over the reader; the data row k is line k + 1 of the file
SlugsRow ==
    /\ pc = "scan"
    /\ line <= Len(csv_rows)
    /\ LET row == csv_rows[line]
           n == line + 1
       IN  IF row.slug = None \/ row.name = None
           THEN \* None has no strip(): AttributeError leaves validate_slugs
                /\ pc' = "done"
                /\ result' = "error"
                /\ UNCHANGED <<line, slugs, errors, warnings>>
           ELSE LET slug == strip(row.slug)
                    name == strip(row.name)
                IN  /\ IF slug = ""
                       THEN /\ errors' = Append(errors,
                                   [line |-> n, kind |-> "empty", slug |-> name])
                            /\ UNCHANGED <<slugs, warnings>>
                       ELSE /\ errors' = errors \o SlugErrors(slug, n)
                            /\ warnings' = warnings \o SlugWarnings(slug, n)
                            /\ slugs' = Append(slugs, slug)
                    /\ line' = line + 1
                    /\ UNCHANGED <<pc, result>>
    /\ UNCHANGED <<callVars, enrichVars, exists, csv_rows, duplicates, total_rows,
                   total_ingredients>>

\* faulty variant: the duplicates are counted and printed but do not fail the run
SlugsVerdictErrorsOnly(dups) == IF errors = <<>> THEN "pass" ELSE "fail"

\* the value validate_slugs returns
SlugsVerdict(dups) == IF errors = <<>> /\ dups = <<>> THEN "pass" ELSE "fail"

\* after the loop: the duplicates are counted and the verdict is returned
SlugsReport ==
    /\ pc = "scan"
    /\ line > Len(csv_rows)
    /\ LET slug_counts == Counter(slugs)
           dups == [s \in {t \in DOMAIN slug_counts : slug_counts[t] > 1}
                       |-> slug_counts[s]]
       IN  /\ duplicates' = dups
           /\ result' = SlugsVerdict(dups)
    /\ pc' = "done"
    /\ UNCHANGED <<callVars, enrichVars, exists, csv_rows, line, slugs, errors, warnings,
                   total_rows, total_ingredients>>

SlugFields == {
    "old-fashioned", "Old-Fashioned", "old--fashioned", "-old-fashioned", "margarita",
    " margarita ", "", "vieux-carré", None
}

\* the files of at most n data rows whose fields are drawn from the given sets
RowsUpTo(rowSet, n) == UNION {[1..k -> rowSet] : k \in 0..n}

InitSlugs ==
    /\ pc = "main"
    /\ \/ exists = FALSE /\ csv_rows = <<>>
       \/ /\ exists = TRUE
          /\ csv_rows \in RowsUpTo([slug : SlugFields, name : {"Martini"}], MaxFileRows)
    /\ line = 1
    /\ slugs = <<>> /\ errors = <<>> /\ warnings = <<>> /\ duplicates = <<>>
    /\ total_rows = 0 /\ total_ingredients = 0
    /\ result = "none"
    /\ CallIdle
    /\ EnrichIdle

NextSlugs == SlugsMain \/ SlugsRow \/ SlugsReport

SpecSlugs == InitSlugs /\ [][NextSlugs]_vars

\* ------------------------------------------------------------------------
\* Claims about validate_slugs
\* ------------------------------------------------------------------------
\* the slug of data row k as the validator reads it (the field, trimmed)
FileSlug(k) == strip(csv_rows[k].slug)

\* the data rows whose slug is s
RowsWithSlug(s) == {k \in 1..Len(csv_rows) : FileSlug(k) = s}

\* the slugs (non-empty slug fields) that several rows of the file have
RepeatedSlugs ==
    {s \in {FileSlug(k) : k \in 1..Len(csv_rows)} \ {""} : Cardinality(RowsWithSlug(s)) > 1}

\* validate_slugs has read the whole file and returned
SlugsReturned == pc = "done" /\ exists /\ result # "error"

\* C9: validate_slugs fails exactly when a per-slug error was recorded or a
\* slug occurs more than once in the file; every slug occurring more than
\* once is reported once, with its multiplicity; a double hyphen alone gives a
\* warning and no failure.
C9_SlugVerdict ==
    SlugsReturned =>
        /\ result = "fail" <=> (errors # <<>> \/ RepeatedSlugs # {})
        /\ DOMAIN duplicates = RepeatedSlugs
        /\ \A s \in RepeatedSlugs : duplicates[s] = Cardinality(RowsWithSlug(s))
        /\ (Len(csv_rows) = 1 /\ csv_rows[1].slug = "old--fashioned")
              => (result = "pass" /\ Len(warnings) = 1)

\* C9 witness: a file whose slugs are all well-formed fails because one of
\* them occurs twice, and the duplicate is reported with count 2.
C9_Witness ==
    /\ SlugsReturned
    /\ errors = <<>>
    /\ result = "fail"
    /\ "margarita" \in DOMAIN duplicates
    /\ duplicates["margarita"] = 2

\* the per-slug rules a slug breaks, as the specification lists them
SpecBrokenSlugRules(slug) ==
    (IF slug = "" THEN {"empty"} ELSE {})
    \cup (IF \E k \in 1..Len(slug) : LowerChar(Char(slug, k)) # Char(slug, k)
          THEN {"uppercase"} ELSE {})
    \cup (IF slug = "" \/ ~(CharsOf(slug) \subseteq AsciiLower \cup Digits \cup {"-"})
          THEN {"not url-safe"} ELSE {})
    \cup (IF slug # "" /\ (Head(slug) = "-" \/ Char(slug, Len(slug)) = "-")
          THEN {"leading or trailing hyphen"} ELSE {})

\* the entries of errors recorded for data row k
ErrorsOfRow(k) == {e \in 1..Len(errors) : errors[e].line = k + 1}

\* the data rows the loop has been through
RowsScanned == 1..(line - 1)

\* C10 as claimed: for every slug, every rule the slug breaks contributes its
\* own error entry (no rule is skipped because an earlier one failed).
C10_EveryBrokenRuleRecorded ==
    (pc \in {"scan", "done"} /\ exists) =>
        \A k \in RowsScanned :
            \A rule \in SpecBrokenSlugRules(FileSlug(k)) :
                \E e \in ErrorsOfRow(k) : errors[e].kind = rule

\* C10 as amended: a non-empty slug gets one error entry for every rule it
\* breaks; an empty slug gets the single entry "empty" and no other rule is
\* applied to it.
C10_NonEmptySlugAllRules ==
    (pc \in {"scan", "done"} /\ exists) =>
        \A k \in RowsScanned :
            LET kinds == {errors[e].kind : e \in ErrorsOfRow(k)}
            IN  /\ Cardinality(ErrorsOfRow(k)) = Cardinality(kinds)
                /\ kinds = IF FileSlug(k) = "" THEN {"empty"}
                           ELSE SpecBrokenSlugRules(FileSlug(k))

\* C10 witness: one slug has been given two error entries.
C10_Witness ==
    /\ pc = "done" /\ exists
    /\ \E k \in RowsScanned : Cardinality(ErrorsOfRow(k)) = 2

\* ------------------------------------------------------------------------
\* validate_ingredients.py
\* ------------------------------------------------------------------------
\* the errors appended for the tokens from the j-th on, read at line n
RECURSIVE TokenErrors(_, _, _)
TokenErrors(ingredients, j, n) ==
    IF j > Len(ingredients) THEN <<>>
    ELSE LET v == validate_ingredient_format(ingredients[j])
         IN  (IF ~v[1] THEN <<[line |-> n, ingredient |-> j, msg |-> v[2]]>> ELSE <<>>)
             \o TokenErrors(ingredients, j + 1, n)

\* faulty variant: a list of two tokens is warned about as well
CountWarningsTwoIsShort(ingredients, n) ==
    (IF Len(ingredients) <= 2 THEN <<[line |-> n, msg |-> "short list"]>> ELSE <<>>)
    \o (IF Len(ingredients) > 15 THEN <<[line |-> n, msg |-> "long list"]>> ELSE <<>>)

\* the warnings appended for a row of the given tokens, read at line n
CountWarnings(ingredients, n) ==
    (IF Len(ingredients) < 2 THEN <<[line |-> n, msg |-> "short list"]>> ELSE <<>>)
    \o (IF Len(ingredients) > 15 THEN <<[line |-> n, msg |-> "long list"]>> ELSE <<>>)

\* main(): the file is looked for
IngredientsMain ==
    /\ pc = "main"
    /\ IF exists THEN pc' = "scan" /\ UNCHANGED result
       ELSE pc' = "done" /\ result' = "fail"
    /\ UNCHANGED <<callVars, enrichVars, exists, csv_rows, line, slugs, errors, warnings,
                   duplicates, total_rows, total_ingredients>>

\* one pass of the loop over the reader; the data row k is line k + 1 of the file
IngredientsRow ==
    /\ pc = "scan"
    /\ line <= Len(csv_rows)
    /\ LET row == csv_rows[line]
           n == line + 1
       IN  IF row.name = None \/ row.ingredients = None
           THEN \* None has no strip(): AttributeError leaves validate_ingredients
                /\ pc' = "done"
                /\ result' = "error"
                /\ total_rows' = total_rows + 1
                /\ UNCHANGED <<line, errors, warnings, total_ingredients>>
           ELSE LET ingredients_str == strip(row.ingredients)
                    ingredients == [j \in 1..Len(split(ingredients_str, "|")) |->
                                       strip(split(ingredients_str, "|")[j])]
                IN  /\ total_rows' = total_rows + 1
                    /\ IF ingredients_str = ""
                       THEN /\ errors' = Append(errors,
                                   [line |-> n, ingredient |-> 0,
                                    msg |-> "No ingredients listed"])
                            /\ UNCHANGED <<warnings, total_ingredients>>
                       ELSE /\ total_ingredients' = total_ingredients + Len(ingredients)
                            /\ errors' = errors \o TokenErrors(ingredients, 1, n)
                            /\ warnings' = warnings \o CountWarnings(ingredients, n)
                    /\ line' = line + 1
                    /\ UNCHANGED <<pc, result>>
    /\ UNCHANGED <<callVars, enrichVars, exists, csv_rows, slugs, duplicates>>

\* faulty variant: a warning fails the run as an error does
IngredientsVerdictWarningsFail ==
    IF errors = <<>> /\ warnings = <<>> THEN "pass" ELSE "fail"

\* the value validate_ingredients returns
IngredientsVerdict == IF errors = <<>> THEN "pass" ELSE "fail"

\* after the loop: the totals are printed, with the average per cocktail
\* (total_ingredients / total_rows), and the verdict is returned
IngredientsReport ==
    /\ pc = "scan"
    /\ line > Len(csv_rows)
    /\ result' = IF total_rows = 0 THEN "error" \* ZeroDivisionError
                 ELSE IngredientsVerdict
    /\ pc' = "done"
    /\ UNCHANGED <<callVars, enrichVars, exists, csv_rows, line, slugs, errors, warnings,
                   duplicates, total_rows, total_ingredients>>

IngredientFields == {
    "2 oz gin|Lemon twist", "2 oz gin", "2 oz gin||1 oz Campari", "null|4 oz Prosecco",
    "", "  ", None,
    "gin|rum|rye|tea|ale|gin|rum|rye|tea|ale|gin|rum|rye|tea|ale",
    "gin|rum|rye|tea|ale|gin|rum|rye|tea|ale|gin|rum|rye|tea|ale|ice"
}

InitIngredients ==
    /\ pc = "main"
    /\ \/ exists = FALSE /\ csv_rows = <<>>
       \/ /\ exists = TRUE
          /\ csv_rows \in RowsUpTo([ingredients : IngredientFields, name : {"Martini"}],
                                   MaxFileRows)
    /\ line = 1
    /\ slugs = <<>> /\ errors = <<>> /\ warnings = <<>> /\ duplicates = <<>>
    /\ total_rows = 0 /\ total_ingredients = 0
    /\ result = "none"
    /\ CallIdle
    /\ EnrichIdle

NextIngredients == IngredientsMain \/ IngredientsRow \/ IngredientsReport

SpecIngredients == InitIngredients /\ [][NextIngredients]_vars

\* ------------------------------------------------------------------------
\* Claims about validate_ingredients
\* ------------------------------------------------------------------------
\* the tokens of data row k: its ingredients field split on the pipe
RowTokens(k) == split(csv_rows[k].ingredients, "|")

\* some token of some row of the file is rejected by validate_ingredient_format
SomeTokenRejected ==
    \E k \in 1..Len(csv_rows) :
        \E j \in 1..Len(RowTokens(k)) : ~validate_ingredient_format(RowTokens(k)[j])[1]

\* validate_ingredients has read the whole file and returned
IngredientsReturned == pc = "done" /\ exists /\ result # "error"

\* C8: validate_ingredients fails exactly when some token of some row of the
\* file is rejected by validate_ingredient_format; warnings never cause
\* failure.
C8_IngredientVerdict ==
    IngredientsReturned =>
        /\ result \in {"pass", "fail"}
        /\ result = "fail" <=> SomeTokenRejected

\* C8 witness: a file that produced a warning and no token error passes.
C8_Witness ==
    /\ IngredientsReturned
    /\ warnings # <<>>
    /\ ~SomeTokenRejected
    /\ result = "pass"

\* ------------------------------------------------------------------------
\* enrich_cocktails.py: main
\* ------------------------------------------------------------------------
\* faulty variant: the name of a row that is kept is put in junk as well
FilterRowAlsoJunk ==
    /\ pc = "filter"
    /\ i <= Len(rows)
    /\ IF Get(rows[i], "name", "") = None
       THEN /\ pc' = "raised"
            /\ UNCHANGED <<i, legitimate, junk>>
       ELSE LET name == strip(Get(rows[i], "name", ""))
            IN  /\ IF is_legitimate_cocktail(name)
                   THEN legitimate' = Append(legitimate, rows[i])
                   ELSE UNCHANGED legitimate
                /\ junk' = Append(junk, name)
                /\ i' = i + 1
                /\ UNCHANGED pc
    /\ UNCHANGED <<callVars, validatorVars, rows, enriched_cocktails, seen_slugs, log,
                   output_file, summary>>

\* the filter loop, one row: kept in legitimate or its name put in junk
FilterRow ==
    /\ pc = "filter"
    /\ i <= Len(rows)
    /\ IF Get(rows[i], "name", "") = None
       THEN \* None has no strip(): AttributeError leaves main
            /\ pc' = "raised"
            /\ UNCHANGED <<i, legitimate, junk>>
       ELSE LET name == strip(Get(rows[i], "name", ""))
            IN  /\ IF is_legitimate_cocktail(name)
                   THEN legitimate' = Append(legitimate, rows[i]) /\ UNCHANGED junk
                   ELSE junk' = Append(junk, name) /\ UNCHANGED legitimate
                /\ i' = i + 1
                /\ UNCHANGED pc
    /\ UNCHANGED <<callVars, validatorVars, rows, enriched_cocktails, seen_slugs, log,
                   output_file, summary>>

\* the filter loop is over
FilterDone ==
    /\ pc = "filter"
    /\ i > Len(rows)
    /\ pc' = "enrich"
    /\ i' = 1
    /\ UNCHANGED <<callVars, validatorVars, rows, legitimate, junk, enriched_cocktails,
                   seen_slugs, log, output_file, summary>>

\* the enrichment loop, one row: try enrich_cocktail, the duplicate-slug step
\* and the append; except: the name is logged and the row left out
EnrichRow ==
    /\ pc = "enrich"
    /\ i <= Len(legitimate)
    /\ LET row == legitimate[i]
           enriched == enrich_cocktail(row)
       IN  IF Raised(enriched)
           THEN /\ log' = Append(log, Get(row, "name", "Unknown"))
                /\ UNCHANGED <<enriched_cocktails, seen_slugs>>
           ELSE LET d == DedupSlug(enriched, seen_slugs)
                IN  /\ enriched_cocktails' = Append(enriched_cocktails, d[1])
                    /\ seen_slugs' = d[2]
                    /\ UNCHANGED log
    /\ i' = i + 1
    /\ UNCHANGED <<callVars, validatorVars, pc, rows, legitimate, junk, output_file,
                   summary>>

\* the enriched rows are written and the summary printed
WriteOutput ==
    /\ pc = "enrich"
    /\ i > Len(legitimate)
    /\ output_file' = enriched_cocktails
    /\ summary' = [total_input |-> Len(rows),
                   legitimate |-> Len(legitimate),
                   junk_removed |-> Len(junk),
                   final_dataset |-> Len(enriched_cocktails)]
    /\ pc' = "done"
    /\ UNCHANGED <<callVars, validatorVars, rows, i, legitimate, junk, enriched_cocktails,
                   seen_slugs, log>>

\* the rows a source CSV is made of here
SourceRows == {
    [id |-> "5", name |-> "Martini", glass |-> "Cocktail glass"],
    [id |-> "9", name |-> "MARTINI ", glass |-> "Martini glass"],
    [id |-> "12", name |-> "martini", glass |-> "", instructions |-> "   "],
    [id |-> "7", name |-> "Martini", glass |-> None],
    [id |-> "3", name |-> "Brain Fart", glass |-> "Shot glass"],
    [id |-> "4", name |-> "Old Fashioned", glass |-> "Old-fashioned glass",
     instructions |-> "Stir. Serve"],
    [id |-> "8", name |-> "Vieux Carré", glass |-> "Cocktail glass"],
    [name |-> "Negroni", glass |-> "Rocks glass"],
    [id |-> "6", name |-> None, glass |-> "Cocktail glass"]
}

InitEnrich ==
    /\ pc = "filter"
    /\ rows \in RowsUpTo(SourceRows, MaxRows)
    /\ i = 1
    /\ legitimate = <<>> /\ junk = <<>>
    /\ enriched_cocktails = <<>> /\ seen_slugs = <<>> /\ log = <<>> /\ output_file = <<>>
    /\ summary = <<>>
    /\ CallIdle
    /\ ValidatorIdle

NextEnrich == FilterRow \/ FilterDone \/ EnrichRow \/ WriteOutput

SpecEnrich == InitEnrich /\ [][NextEnrich]_vars

\* rows of a source CSV whose ids are words (an id is an opaque identifier)
WordIdRows == {
    [id |-> "1", name |-> "Kir Royale", glass |-> "Champagne flute"],
    [id |-> "2", name |-> "Kir", glass |-> "Wine glass"],
    [id |-> "royale", name |-> "Kir", glass |-> "Wine glass"],
    [id |-> "sbagliato", name |-> "Negroni", glass |-> "Rocks glass"],
    [id |-> "n1", name |-> "Negroni Sbagliato", glass |-> "Rocks glass"],
    [id |-> "x", name |-> "Brain Fart", glass |-> "Shot glass"]
}

InitEnrichWordIds ==
    /\ pc = "filter"
    /\ rows \in RowsUpTo(WordIdRows, MaxRows)
    /\ i = 1
    /\ legitimate = <<>> /\ junk = <<>>
    /\ enriched_cocktails = <<>> /\ seen_slugs = <<>> /\ log = <<>> /\ output_file = <<>>
    /\ summary = <<>>
    /\ CallIdle
    /\ ValidatorIdle

SpecEnrichWordIds == InitEnrichWordIds /\ [][NextEnrich]_vars

\* ------------------------------------------------------------------------
\* Claims about the enricher
\* ------------------------------------------------------------------------
\* the slug create_slug gives to the name of output row k
BaseSlug(k) == create_slug(enriched_cocktails[k].name)

\* the output rows before row k that have the base slug of row k
EarlierSameBase(k) == {m \in 1..(k - 1) : BaseSlug(m) = BaseSlug(k)}

\* C3: in input order, the first enriched record with a base slug keeps it
\* and is the one entered in the registry; every later record with that base
\* slug is written as base-<its own id>; the registry entry is never
\* overwritten and a renamed slug is never entered.
C3_SlugDedup ==
    pc \in {"enrich", "done"} =>
        /\ \A k \in 1..Len(enriched_cocktails) :
              LET r == enriched_cocktails[k]
              IN  IF EarlierSameBase(k) = {}
                  THEN /\ r.slug = BaseSlug(k)
                       /\ BaseSlug(k) \in DOMAIN seen_slugs
                       /\ seen_slugs[BaseSlug(k)] = r.id
                  ELSE r.slug = BaseSlug(k) \o "-" \o r.id
        /\ DOMAIN seen_slugs = {BaseSlug(k) : k \in 1..Len(enriched_cocktails)}

\* C3 witness: three records with one base slug are written; the second and
\* the third each carry their own id.
C3_Witness ==
    /\ pc = "done"
    /\ Len(output_file) = 3
    /\ output_file[1].slug = "martini"
    /\ output_file[2].slug = "martini-9"
    /\ output_file[3].slug = "martini-12"

\* C4: every slug written is non-empty, lowercase, matches ^[a-z0-9-]+$ and has
\* no hyphen at either end, so the slug validator records no error for it.
C4_WrittenSlugsUrlSafe ==
    \A k \in 1..Len(enriched_cocktails) :
        /\ SpecBrokenSlugRules(enriched_cocktails[k].slug) = {}
        /\ SlugErrors(enriched_cocktails[k].slug, k + 1) = <<>>

\* a row whose enrichment raises: no id, or a glass that is None
EnrichFails(row) == ~HasKey(row, "id") \/ Get(row, "glass", "Cocktail glass") = None

\* the source rows of which a row is written: legitimate name, enrichment
\* succeeded; in input order
RECURSIVE SpecRetained(_)
SpecRetained(rs) ==
    IF rs = <<>> THEN <<>>
    ELSE (IF SpecAccepts(strip(Head(rs).name)) /\ ~EnrichFails(Head(rs))
          THEN <<Head(rs)>> ELSE <<>>)
         \o SpecRetained(Tail(rs))

\* C6: the output holds one row for each input record with a legitimate name
\* whose enrichment succeeded, in input order, and none for a rejected record;
\* every output row has a non-empty slug, ingredients and base_spirit.
C6_OutputRows ==
    pc = "done" =>
        LET kept == SpecRetained(rows)
        IN  /\ Len(output_file) = Len(kept)
            /\ \A k \in 1..Len(kept) :
                  /\ output_file[k].id = kept[k].id
                  /\ output_file[k].name = strip(kept[k].name)
                  /\ output_file[k].slug # ""
                  /\ output_file[k].ingredients # ""
                  /\ output_file[k].base_spirit # ""
            /\ (/\ [k \in 1..Len(rows) |-> rows[k].name]
                       = <<"Martini", "Brain Fart", "Old Fashioned">>
                /\ \A k \in 1..Len(rows) : ~EnrichFails(rows[k]))
                  => /\ [k \in 1..Len(output_file) |-> output_file[k].name]
                           = <<"Martini", "Old Fashioned">>
                     /\ Len(legitimate) = 2
                     /\ Len(junk) = 1

\* C6 witness: of three input rows one was rejected and two were written.
C6_Witness ==
    /\ pc = "done"
    /\ Len(rows) = 3
    /\ junk = <<"Brain Fart">>
    /\ Len(output_file) = 2
    /\ output_file[1].name = "Martini"
    /\ output_file[2].name = "Old Fashioned"

\* C11: enrich_cocktail fails for a retained record only when the record has
\* no id or no name; a failure is caught for that record alone: its name is
\* logged, it is left out of the output, and every other retained record is
\* processed and written.
C11_EnrichFailsOnlyWithoutIdOrName ==
    /\ \A k \in 1..Len(legitimate) :
          Raised(enrich_cocktail(legitimate[k]))
              => ~HasKey(legitimate[k], "id") \/ ~HasKey(legitimate[k], "name")
    /\ pc = "done" =>
          /\ Len(output_file) + Len(log) = Len(legitimate)
          /\ \A k \in 1..Len(log) : \E m \in 1..Len(legitimate) :
                /\ Raised(enrich_cocktail(legitimate[m]))
                /\ log[k] = legitimate[m].name

\* C12: a run of the ingredient validator always ends with a verdict and never
\* with an uncaught error: a missing file gives failure; an existing file, a
\* file with a header and no data row included, is scanned to its last row and
\* then gives success when no error was recorded and failure otherwise.
C12_ValidatorEndsWithVerdict ==
    pc = "done" =>
        /\ result \in {"pass", "fail"}
        /\ ~exists => result = "fail"
        /\ exists => /\ line = Len(csv_rows) + 1
                      /\ total_rows = Len(csv_rows)
                      /\ result = "pass" <=> errors = <<>>

\* ------------------------------------------------------------------------
\* The derived-field functions called on a name, as enrich_cocktail calls them
\* ------------------------------------------------------------------------
\* the words the keyword tests of get_base_spirit, get_category and
\* generate_flavor_profile look for
NameWords == {
    "americano", "aperol", "aviation", "b-52", "bellini", "blended", "bloody mary",
    "bourbon", "brandy", "campari", "champagne", "cognac", "collins", "cosmopolitan",
    "cuba", "daiquiri", "egg", "espresso martini", "fizz", "flip", "french 75",
    "frozen", "gimlet", "gin", "highball", "hurricane", "kamikaze", "mai tai",
    "manhattan", "margarita", "martini", "mezcal", "mimosa", "mint julep", "mojito",
    "moscow", "negroni", "old fashioned", "painkiller", "paloma", "pina colada",
    "prosecco", "rickey", "rum", "russian", "rye", "sazerac", "scotch",
    "sex on the beach", "shooter", "shot", "sidecar", "sour", "spritz", "tequila",
    "tiki", "tom collins", "tonic", "vodka", "whiskey", "whiskey sour", "whisky",
    "zombie"
}

FieldTestNames == {
    "Espresso Martini", "Martini Sour", "Sour Martini", "Egg Sour", "Port Flip",
    "Eggnog Flip",
    "Frozen Margarita", "Whiskey Sour", "Gin Fizz", "Kir", "KIR ROYALE", "", "B-52",
    "Piña Colada", "Vieux Carré", "Horse's Neck"
}

\* names: the allow-list, the examples, one word, two words
FieldNames ==
    LEGITIMATE_COCKTAILS \cup FieldTestNames \cup NameWords
        \cup {a \o " " \o b : a \in NameWords, b \in NameWords}

InitFields ==
    /\ pc = "start"
    /\ arg \in FieldNames
    /\ rets = <<>>
    /\ EnrichIdle
    /\ ValidatorIdle

CallGetBaseSpirit ==
    /\ pc = "start"
    /\ rets' = <<get_base_spirit(arg)>>
    /\ pc' = "spirit"
    /\ UNCHANGED <<arg, enrichVars, validatorVars>>

CallGetCategory ==
    /\ pc = "start"
    /\ rets' = <<get_category(arg)>>
    /\ pc' = "category"
    /\ UNCHANGED <<arg, enrichVars, validatorVars>>

\* the six calls of generate_flavor_profile, one aspect after the other
CallGenerateFlavorProfile ==
    /\ pc \in {"start", "flavor"}
    /\ Len(rets) < Len(FlavorAspects)
    /\ rets' = Append(rets, generate_flavor_profile(arg, FlavorAspects[Len(rets) + 1]))
    /\ pc' = "flavor"
    /\ UNCHANGED <<arg, enrichVars, validatorVars>>

\* generate_ingredients(name, base_spirit), with the base spirit just found
CallGenerateIngredients ==
    /\ pc = "spirit"
    /\ rets' = Append(rets, generate_ingredients(arg, rets[1]))
    /\ pc' = "ingredients"
    /\ UNCHANGED <<arg, enrichVars, validatorVars>>

CallGenerateFunFact ==
    /\ pc = "start"
    /\ rets' = <<generate_fun_fact(arg)>>
    /\ pc' = "fun_fact"
    /\ UNCHANGED <<arg, enrichVars, validatorVars>>

\* generate_fun_fact_source(name), after generate_fun_fact(name)
CallGenerateFunFactSource ==
    /\ pc = "fun_fact"
    /\ rets' = Append(rets, generate_fun_fact_source(arg))
    /\ pc' = "fun_fact_source"
    /\ UNCHANGED <<arg, enrichVars, validatorVars>>

NextFields ==
    CallGetBaseSpirit \/ CallGetCategory \/ CallGenerateFlavorProfile
        \/ CallGenerateIngredients \/ CallGenerateFunFact \/ CallGenerateFunFactSource

SpecFields == InitFields /\ [][NextFields]_vars

\* the keywords generate_flavor_profile looks for under an aspect
SpecAspectKeywords(aspect) ==
    CASE aspect = "strength" ->
            {"martini", "manhattan", "negroni", "sazerac", "old fashioned", "shot",
             "shooter", "spritz", "mimosa", "bellini"}
      [] aspect = "sweetness" ->
            {"pina colada", "mai tai", "sex on the beach", "martini", "negroni", "sazerac"}
      [] aspect = "tartness" ->
            {"sour", "daiquiri", "margarita", "gimlet", "old fashioned", "manhattan",
             "negroni"}
      [] aspect = "bitterness" ->
            {"negroni", "americano", "aperol", "daiquiri", "mojito", "pina colada"}
      [] aspect = "aroma" -> {"martini", "gin", "aviation", "negroni"}
      [] aspect = "texture" ->
            {"flip", "sour", "egg", "frozen", "blended", "pina colada", "martini",
             "manhattan"}

\* no keyword of the aspect is a substring of the lowercased name
NoAspectKeyword(name, aspect) ==
    \A x \in SpecAspectKeywords(aspect) : ~Contains(lower(name), x)

\* C13 as stated: every rating is an integer in 1..10, and the rating of an
\* aspect none of whose keywords is in the name is 5, or 4 or 6.
C13_RatingDefaultFiveFourSix ==
    pc = "flavor" =>
        \A k \in 1..Len(rets) :
            /\ rets[k] \in 1..10
            /\ NoAspectKeyword(arg, FlavorAspects[k]) => rets[k] \in {4, 5, 6}

\* the rating the code gives an aspect when none of its keywords matches
SpecAspectDefault(aspect) ==
    CASE aspect = "strength" -> 6
      [] aspect = "sweetness" -> 5
      [] aspect = "tartness" -> 4
      [] aspect = "bitterness" -> 3
      [] aspect = "aroma" -> 5
      [] aspect = "texture" -> 5

\* C13 amended: every rating is an integer in 1..10, and the rating of an
\* aspect none of whose keywords is in the name is that aspect's default:
\* strength 6, sweetness 5, tartness 4, bitterness 3, aroma 5, texture 5.
C13_RatingInRangeWithAspectDefault ==
    pc = "flavor" =>
        \A k \in 1..Len(rets) :
            /\ rets[k] \in 1..10
            /\ NoAspectKeyword(arg, FlavorAspects[k])
                  => rets[k] = SpecAspectDefault(FlavorAspects[k])

\* C13 witness: the six ratings of a name with no keyword at all have been
\* returned, and those of a name with keywords of several aspects.
C13_Witness ==
    /\ pc = "flavor"
    /\ arg = "Kir"
    /\ rets = <<6, 5, 4, 3, 5, 5>>

\* ------------------------------------------------------------------------
\* clean_instructions called on its own
\* ------------------------------------------------------------------------
InstructionsAlphabet == {"a", ".", " ", "\t", "1"}

TestInstructions == {
    "Shake well. Strain", "1. Shake.   2. Strain.", " Stir\tgently .. Serve ",
    "2 oz gin. Stir", "1.5 oz gin. Stir", "12. Pour", "Pour", "   ", "..."
}

InstructionsInputs ==
    TestInstructions \cup StringsUpTo(InstructionsAlphabet, MaxInstructionsLen)

InitInstructions ==
    /\ pc = "start"
    /\ arg \in InstructionsInputs \cup {None}
    /\ rets = <<>>
    /\ EnrichIdle
    /\ ValidatorIdle

CallCleanInstructions ==
    /\ pc = "start"
    /\ rets' = <<clean_instructions(arg)>>
    /\ pc' = "cleaned"
    /\ UNCHANGED <<arg, enrichVars, validatorVars>>

NextInstructions == CallCleanInstructions

SpecInstructions == InitInstructions /\ [][NextInstructions]_vars

\* the trimmed text with every run of whitespace collapsed to one space: the
\* characters of t from the j-th on, t trimmed
RECURSIVE SpecCollapsedFrom(_, _)
SpecCollapsedFrom(t, j) ==
    IF j > Len(t) THEN ""
    ELSE (IF ~IsSpace(Char(t, j)) THEN Char(t, j)
          ELSE IF IsSpace(Char(t, j - 1)) THEN "" ELSE " ")
         \o SpecCollapsedFrom(t, j + 1)

SpecCollapsed(text) ==
    LET first == {j \in 1..Len(text) : ~IsSpace(Char(text, j))}
    IN  IF first = {} THEN ""
        ELSE LET a == CHOOSE j \in first : \A m \in first : j <= m
                 b == CHOOSE j \in first : \A m \in first : j >= m
             IN  Char(text, a) \o SpecCollapsedFrom(SubSeq(text, a, b), 2)

\* the text starts with a step number: digits, then a period
SpecNumbered(t) ==
    \E k \in 1..(Len(t) - 1) :
        /\ \A m \in 1..k : Char(t, m) \in {"0", "1", "2", "3", "4", "5", "6", "7", "8", "9"}
        /\ Char(t, k + 1) = "."

\* the trimmed, non-empty stretches of t between its periods, from position a
RECURSIVE SpecSentencesFrom(_, _)
SpecSentencesFrom(t, a) ==
    LET dots == {j \in a..Len(t) : Char(t, j) = "."}
        b == IF dots = {} THEN Len(t) + 1
             ELSE CHOOSE j \in dots : \A m \in dots : j <= m
        piece == SpecCollapsed(SubSeq(t, a, b - 1))
    IN  (IF piece = "" THEN <<>> ELSE <<piece>>)
        \o (IF dots = {} THEN <<>> ELSE SpecSentencesFrom(t, b + 1))

\* the first n sentences as '{k}. {sentence}.', joined by single spaces
RECURSIVE SpecNumberedJoin(_, _)
SpecNumberedJoin(ss, n) ==
    IF n = 0 THEN ""
    ELSE SpecNumberedJoin(ss, n - 1) \o (IF n > 1 THEN " " ELSE "")
         \o ToString(n) \o ". " \o ss[n] \o "."

\* C14: absent instructions give the fixed 4-step text; otherwise the text is
\* trimmed and its whitespace collapsed, and if it does not start with a step
\* number its non-empty sentences are returned re-numbered in order as
\* '{n}. {sentence}.' joined by single spaces; numbered text is returned with
\* only the whitespace collapsed.
C14_CleanInstructions ==
    pc = "cleaned" =>
        IF arg = None \/ arg = ""
        THEN rets[1] = "1. Combine ingredients in shaker with ice. 2. Shake well for 15 seconds. 3. Strain into chilled glass. 4. Garnish and serve."
        ELSE LET t == SpecCollapsed(arg)
                 ss == SpecSentencesFrom(t, 1)
             IN  /\ SpecNumbered(t) => rets[1] = t
                 /\ ~SpecNumbered(t) => rets[1] = SpecNumberedJoin(ss, Len(ss))
                 /\ arg = "Shake well. Strain" => rets[1] = "1. Shake well. 2. Strain."
                 /\ arg = "1. Shake.   2. Strain." => rets[1] = "1. Shake. 2. Strain."

\* C14 witness: a text of two sentences with untidy whitespace was numbered.
C14_Witness ==
    /\ pc = "cleaned"
    /\ arg = " Stir\tgently .. Serve "
    /\ rets = <<"1. Stir gently. 2. Serve.">>

\* C20: for every instructions input clean_instructions returns a non-empty
\* string that begins with a step number '<digits>.'.
C20_InstructionsNonEmptyNumbered ==
    pc = "cleaned" => rets[1] # "" /\ SpecNumbered(rets[1])

\* the warnings recorded for data row k
WarningsOfRow(k) == {w \in 1..Len(warnings) : warnings[w].line = k + 1}

\* C15 as stated: every row read has a warning exactly when its ingredients
\* field, split on the pipe, has fewer than 2 or more than 15 tokens; the
\* token count never adds an error.
C15_TokenCountWarning ==
    (pc \in {"scan", "done"} /\ exists) =>
        \A k \in RowsScanned :
            /\ WarningsOfRow(k) # {} <=> (Len(RowTokens(k)) < 2 \/ Len(RowTokens(k)) > 15)
            /\ \A e \in ErrorsOfRow(k) : errors[e].msg \notin {"short list", "long list"}

\* C15 amended: a row whose ingredients field is not blank has one warning
\* when the field has fewer than 2 or more than 15 tokens and none otherwise,
\* and the token count never adds an error; a row whose field is blank has
\* the error 'No ingredients listed' and no warning.
C15_NonBlankFieldCountWarning ==
    (pc \in {"scan", "done"} /\ exists) =>
        \A k \in RowsScanned :
            IF strip(csv_rows[k].ingredients) = ""
            THEN /\ WarningsOfRow(k) = {}
                 /\ \E e \in ErrorsOfRow(k) : errors[e].msg = "No ingredients listed"
            ELSE /\ Cardinality(WarningsOfRow(k)) =
                        IF Len(RowTokens(k)) < 2 \/ Len(RowTokens(k)) > 15 THEN 1 ELSE 0
                 /\ Cardinality(ErrorsOfRow(k)) =
                        Cardinality({j \in 1..Len(RowTokens(k)) :
                                        ~validate_ingredient_format(RowTokens(k)[j])[1]})

\* C15 witness: a file with a row of one token, a row of 15 and a row of 16
\* has passed with two warnings.
C15_Witness ==
    /\ pc = "done" /\ result = "pass"
    /\ Len(csv_rows) = 3
    /\ Len(RowTokens(1)) = 1 /\ Len(RowTokens(2)) = 15 /\ Len(RowTokens(3)) = 16
    /\ Len(warnings) = 2
    /\ WarningsOfRow(2) = {}

\* the groups of the list that have a keyword in the lowercased name
SpecMatching(groups, name) ==
    {g \in 1..Len(groups) : \E x \in groups[g][1] : Contains(lower(name), x)}

\* value is what the earliest matching group gives, the default if none does
SpecFirstWins(groups, name, value, default) ==
    LET ms == SpecMatching(groups, name)
    IN  IF ms = {} THEN value = default
        ELSE \E g \in ms : (\A h \in ms : g <= h) /\ value = groups[g][2]

\* C16: get_base_spirit and get_category return the value of the first
\* keyword group, in the listed order, with a keyword in the lowercased name,
\* and the default ('Spirit', 'Classic') only when no group matches; a name
\* with 'martini' and 'sour' has category 'Spirit-Forward' and 'Espresso
\* Martini' has base spirit 'Vodka'.
C16_FirstGroupWins ==
    /\ pc \in {"spirit", "ingredients"} =>
          /\ SpecFirstWins(SpiritGroups, arg, rets[1], "Spirit")
          /\ arg = "Espresso Martini" => rets[1] = "Vodka"
    /\ pc = "category" =>
          /\ SpecFirstWins(CategoryGroups, arg, rets[1], "Classic")
          /\ (Contains(lower(arg), "martini") /\ Contains(lower(arg), "sour"))
                => rets[1] = "Spirit-Forward"

\* C16 witness: the category of a name with keywords of two groups, the
\* later group's keyword first in the name, has been returned.
C16_Witness ==
    /\ pc = "category"
    /\ arg = "sour martini"
    /\ rets = <<"Spirit-Forward">>

\* C17: when the ids of the input records are pairwise distinct, the slugs of
\* the output rows are pairwise distinct after the duplicate-slug step.
C17_DistinctIdsDistinctSlugs ==
    (\A a, b \in 1..Len(rows) : a # b => rows[a].id # rows[b].id) =>
        \A a, b \in 1..Len(enriched_cocktails) :
            a # b => enriched_cocktails[a].slug # enriched_cocktails[b].slug

\* the retained rows the enrichment loop has been through and enriched
RECURSIVE SpecEnrichedOf(_)
SpecEnrichedOf(rs) ==
    IF rs = <<>> THEN <<>>
    ELSE (IF EnrichFails(Head(rs)) THEN <<>> ELSE <<Head(rs)>>) \o SpecEnrichedOf(Tail(rs))

\* a record with its slug blanked
SpecButSlug(r) == [r EXCEPT !.slug = ""]

\* every output row is, but for its slug, what enrich_cocktail makes of its
\* own input row
SpecOwnRowOnly ==
    pc \in {"enrich", "done"} =>
        LET src == SpecEnrichedOf(SubSeq(legitimate, 1, i - 1))
        IN  /\ Len(enriched_cocktails) = Len(src)
            /\ \A k \in 1..Len(src) :
                  SpecButSlug(enriched_cocktails[k]) = SpecButSlug(enrich_cocktail(src[k]))

\* a step leaves the input rows, the retained rows once the filter is over,
\* and the records already appended as they are
SpecFrame ==
    /\ rows' = rows
    /\ pc = "enrich" => legitimate' = legitimate
    /\ Len(enriched_cocktails') >= Len(enriched_cocktails)
    /\ SubSeq(enriched_cocktails', 1, Len(enriched_cocktails)) = enriched_cocktails

\* C18: the duplicate-slug step changes only the slug of the colliding
\* record; its other fields, the records already appended and the input rows
\* are left unchanged, and every field of an output row other than slug
\* depends only on that row's own input record.
C18_DedupChangesOnlySlug == [](SpecOwnRowOnly) /\ [][SpecFrame]_vars

\* C18 witness: a colliding record has been written with a new slug and its
\* other fields as enriched.
C18_Witness ==
    /\ pc = "done"
    /\ Len(output_file) = 2
    /\ output_file[2].slug = "martini-9"
    /\ output_file[2].name = "MARTINI"
    /\ output_file[2].id = "9"
    /\ output_file[2].glassware = "Martini Glass"
    /\ output_file[1].slug = "martini"

\* C19: for every name is_legitimate_cocktail accepts, the ingredients field
\* generate_ingredients returns (table recipe or fallback) has between 2 and
\* 15 tokens between its pipes, each accepted by validate_ingredient_format,
\* so the ingredient validator has neither an error nor a warning for it.
C19_GeneratedIngredientsValid ==
    (pc = "ingredients" /\ is_legitimate_cocktail(arg)) =>
        LET tokens == split(rets[2], "|")
        IN  /\ strip(rets[2]) # ""
            /\ Len(tokens) >= 2 /\ Len(tokens) <= 15
            /\ \A j \in 1..Len(tokens) : validate_ingredient_format(tokens[j])[1]
            /\ TokenErrors(tokens, 1, 2) = <<>>
            /\ CountWarnings(tokens, 2) = <<>>

\* C19 witness: the fallback list of an accepted name without a recipe, and
\* the recipe of an accepted name, have been returned.
C19_Witness ==
    /\ pc = "ingredients"
    /\ is_legitimate_cocktail(arg)
    /\ \/ arg = "adonis" /\ rets[2] = "2 oz spirit|1 oz citrus juice|0.75 oz simple syrup"
       \/ arg = "negroni" /\ Len(split(rets[2], "|")) = 3

\* C21: in the summary printed at the end of a run, every input row is in
\* exactly one of 'legitimate' and 'junk', so Total input = Legitimate + Junk
\* removed; Final dataset is the number of rows written and is Legitimate
\* minus the number of records whose enrichment failed, hence at most
\* Legitimate.
C21_SummaryCounts ==
    pc = "done" =>
        LET accepted == {k \in 1..Len(rows) : SpecAccepts(strip(rows[k].name))}
            failed == {k \in accepted : EnrichFails(rows[k])}
        IN  /\ summary.total_input = Len(rows)
            /\ summary.legitimate = Cardinality(accepted)
            /\ summary.junk_removed = Len(rows) - Cardinality(accepted)
            /\ summary.total_input = summary.legitimate + summary.junk_removed
            /\ summary.final_dataset = Len(output_file)
            /\ summary.final_dataset = summary.legitimate - Cardinality(failed)
            /\ summary.final_dataset <= summary.legitimate

\* C21 witness: a run of three rows, one of them junk and one whose
\* enrichment failed, has printed its summary.
C21_Witness ==
    /\ pc = "done"
    /\ summary = [total_input |-> 3, legitimate |-> 2, junk_removed |-> 1,
                  final_dataset |-> 1]
    /\ Len(log) = 1

\* C22: for every name, generate_fun_fact returns an entry of its table
\* exactly when generate_fun_fact_source returns an entry of its table: a
\* specific fact is never paired with the generic source 'Cocktail historical
\* references', nor the generic fact with a specific source.
C22_FactAndSourceCoverSameNames ==
    pc = "fun_fact_source" =>
        LET generic_fact == "The " \o arg
                \o " is a classic cocktail with a rich history in cocktail culture."
        IN  rets[1] # generic_fact <=> rets[2] # "Cocktail historical references"

====
